---- MODULE Spec2Model ----
(***************************************************************************)
(* Request/retry state machine of httpclient-lib-go.                       *)
(*                                                                         *)
(* The repository holds two variants of Request:                           *)
(*   "current" : src/httpclient.go      (2xx range, loop-end increment,    *)
(*                                       no User-Agent)                    *)
(*   "legacy"  : src/unnamed/part_000   (200/201 only, no loop-end         *)
(*                                       increment, User-Agent + global    *)
(*                                       `version`)                        *)
(* Both are modelled; `variant` says which one the calls run.              *)
(* The helpers statusOK, statusNotFound, statusTooManyRequests and         *)
(* statusForbidden live in a file that is not part of src/; they are       *)
(* modelled from section 4.1/4.2 of the specification.                     *)
(***************************************************************************)
EXTENDS Integers, Sequences, FiniteSets, TLC

VARIABLES variant, concurrent, version, constructOK, hdrVersion, pc, attempts,
          err, loopErr, req, resp, sends, nsleeps, seen, result, openBodies, pure,
          slept, bodyLen, bodyLeft, payload, reading

vars == <<variant, concurrent, version, constructOK, hdrVersion, pc, attempts,
          err, loopErr, req, resp, sends, nsleeps, seen, result, openBodies, pure,
          slept, bodyLen, bodyLeft, payload, reading>>

\* ------------------------------------------------------------- scope
\* The concurrent callers of Request.
Calls == {"c1", "c2"}

\* client.Do is called at most MaxSends times per call in the model (the
\* legacy loop is otherwise unbounded); at most MaxConcSends times per call
\* when the calls of Calls run concurrently.
MaxSends == 10
MaxConcSends == 4
\* A Link header holds at most MaxLinks comma-separated chunks.
MaxLinks == 3

\* The longest request body (in bytes) a caller passes.
MaxBody == 2

Variants == {"current", "legacy"}

\* ------------------------------------------------------------- constants
maxBackOffAttempts == 8
StatusOK == 200
StatusCreated == 201
StatusNotFound == 404
StatusTooManyRequests == 429
StatusForbidden == 403
\* bounds of the 2xx test of src/httpclient.go
OKLow == 200
OKHigh == 299

userAgent == "Golang_italia_backend_bot"
defaultVersion == "0.0.1_local"

\* Values of headers["version"] a caller passes ("" = no such entry).
HeaderVersions == {"", "1.0"}
\* A string read or written under a data race on `version`.
Torn == "torn"

\* Status codes the server answers with (to a call running alone; to
\* concurrent calls), and the retry hint of a 429 or 403 response: none or
\* usable ("none": the classifier sleeps and returns no error), or unusable.
StatusCodes == {200, 201, 204, 299, 300, 403, 404, 429, 500}
ConcStatusCodes == {200, 403, 404, 429, 500}
Hints == {"none", "corrupt"}

Nil == "nil"
NoResp == [code |-> 0, hint |-> "none"]
\* A request without User-Agent header / the User-Agent header value
\* userAgent + "/" + v.
NoUA == [product |-> "", version |-> ""]
UA(v) == [product |-> userAgent, version |-> v]
NoResult == [code |-> 0, err |-> Nil, text |-> "", body |-> "nil", headers |-> "nil"]

\* ------------------------------------------------------------- helpers
\* for expBackoffAttempts < maxBackOffAttempts
LoopCond(a) == a < maxBackOffAttempts

\* Mutation: the success range reaches one code past 299.
IsOKRangeWide(code) == code >= OKLow /\ code <= OKHigh + 1

\* resp.StatusCode >= 200 && resp.StatusCode <= 299 (current)
IsOKRange(code) == code >= OKLow /\ code <= OKHigh

\* resp.StatusCode == http.StatusOK, then == http.StatusCreated (legacy)
IsOKOrCreated(code) == code = StatusOK \/ code = StatusCreated

\* The success test of a response.
IsOK(v, code) == IF v = "current" THEN IsOKRange(code) ELSE IsOKOrCreated(code)

\* Mutation: the not-found branch tests the wrong status constant.
IsNotFoundWrongStatus(code) == code = StatusForbidden

IsNotFound(code) == code = StatusNotFound

IsTooManyRequests(code) == code = StatusTooManyRequests

IsForbidden(code) == code = StatusForbidden

\* expBackoffAttempts += 1 at the end of the loop body (current only).
LoopEndIncrement(v, a) == IF v = "current" THEN a + 1 ELSE a

\* Mutation: the -1 envelope carries the headers of the response.
ErrorEnvelopeKeepsHeaders(e) ==
    [code |-> -1, err |-> e, text |-> "error+URL", body |-> "nil", headers |-> "headers"]

\* The -1 envelope returned with an error e.
ErrorEnvelope(e) ==
    [code |-> -1, err |-> e, text |-> "error+URL", body |-> "nil", headers |-> "nil"]

\* The return after the loop: `err` is the function-scope variable, which
\* the loop body never assigns (req, err := ... declares a new err).
ExhaustedResult(outerErr) ==
    [code |-> -1, err |-> outerErr, text |-> "Invalid Status Code: URL",
     body |-> "nil", headers |-> "nil"]

\* statusOK / statusNotFound: terminal result with the real code, nil error.
statusOK(r) ==
    [code |-> r.code, err |-> Nil, text |-> "status-line", body |-> "bytes",
     headers |-> "headers"]

statusNotFound(r) ==
    [code |-> r.code, err |-> Nil, text |-> "status-line", body |-> "bytes",
     headers |-> "headers"]

\* The classifiers: attempts + 1, error only on an unusable retry hint.
statusTooManyRequests(r, a) ==
    [attempts |-> a + 1, err |-> IF r.hint = "corrupt" THEN "classifier" ELSE Nil]

statusForbidden(r, a) ==
    [attempts |-> a + 1, err |-> IF r.hint = "corrupt" THEN "classifier" ELSE Nil]

\* The response bodies of a call still open after a return, of n open before
\* it: the current variant defers resp.Body.Close() for every response, and
\* the deferred calls run at the return; the legacy variant closes nothing,
\* and only statusOK / statusNotFound drain the body they are given.
BodiesAtReturn(v, n, drained) == IF v = "current" THEN 0 ELSE n - drained

\* ------------------------------------------------------------- pure functions
\* math.Pow(x, y) for a natural exponent y.
RECURSIVE Pow(_, _)
Pow(x, y) == IF y = 0 THEN 1 ELSE x * Pow(x, y - 1)

\* Mutation: the "- 1" of the formula is lost.
expBackoffCalcNoMinusOne(a) == [num |-> Pow(2, a), den |-> 2]

\* expBackoffCalc: (math.Pow(2, float64(attempts)) - 1) / 2, as the exact
\* fraction num / den (the float64 value is exact for these arguments).
expBackoffCalc(a) == [num |-> Pow(2, a) - 1, den |-> 2]

\* The chunks of a Link header value: a well-formed link <URL>; rel="Rel",
\* or a malformed chunk.
LinkURLs == {"https://x/1", "https://x/2"}
LinkRels == {"next", "prev", "last"}
Links == [URL : LinkURLs, Rel : LinkRels]
Malformed == [URL |-> "", Rel |-> ""]
LinkHeaders == UNION {[1..n -> Links \cup {Malformed}] : n \in 0..MaxLinks}
\* The relations a caller asks for ("first" is in no header of LinkHeaders).
Commands == LinkRels \cup {"first"}

\* linkheader.Parse: the well-formed links of the header, in order.
Parse(linkHeader) == SelectSeq(linkHeader, LAMBDA l : l # Malformed)

\* for _, link := range parsedLinks from index i on: the first match.
RECURSIVE ScanLinks(_, _, _)
ScanLinks(parsedLinks, i, command) ==
    IF i > Len(parsedLinks) THEN ""
    ELSE IF parsedLinks[i].Rel = command THEN parsedLinks[i].URL
    ELSE ScanLinks(parsedLinks, i + 1, command)

\* Mutation: the loop does not return at the first match, the last one wins.
RECURSIVE ScanLinksLast(_, _, _)
ScanLinksLast(parsedLinks, i, command) ==
    IF i > Len(parsedLinks) THEN ""
    ELSE LET rest == ScanLinksLast(parsedLinks, i + 1, command) IN
         IF rest # "" THEN rest
         ELSE IF parsedLinks[i].Rel = command THEN parsedLinks[i].URL ELSE ""

HeaderLinkLastMatch(linkHeader, command) == ScanLinksLast(Parse(linkHeader), 1, command)

HeaderLink(linkHeader, command) == ScanLinks(Parse(linkHeader), 1, command)

\* The time a classifier blocks the call before it returns, in half seconds:
\* the exponential backoff of the current attempt count (no sleep when it
\* returns an error).
classifierSleep(r, a) == IF r.hint = "corrupt" THEN 0 ELSE expBackoffCalc(a).num

\* A call of a pure function: its arguments, and its result once it ran.
PureIdle ==
    [op |-> "none", ran |-> FALSE, n |-> 0, linkHeader |-> <<>>, command |-> "",
     backoff |-> [num |-> 0, den |-> 1], url |-> ""]

\* The calls that run: one call alone, or all of Calls concurrently.
Running == IF concurrent THEN Calls ELSE {"c1"}

SendBudget == IF concurrent THEN MaxConcSends ELSE MaxSends

Answers == IF concurrent THEN ConcStatusCodes ELSE StatusCodes

\* ------------------------------------------------------------- Init
InitWith(conc) ==
    /\ variant \in Variants
    /\ concurrent = conc
    /\ version = defaultVersion
    /\ constructOK \in [Calls -> BOOLEAN]
    /\ hdrVersion \in [Calls -> HeaderVersions]
    /\ \A c \in Calls \ Running : constructOK[c] /\ hdrVersion[c] = ""
    /\ pc = [c \in Calls |-> "loop"]
    /\ attempts = [c \in Calls |-> 0]
    /\ err = [c \in Calls |-> Nil]
    /\ loopErr = [c \in Calls |-> Nil]
    /\ req = [c \in Calls |-> NoUA]
    /\ resp = [c \in Calls |-> NoResp]
    /\ sends = [c \in Calls |-> 0]
    /\ nsleeps = [c \in Calls |-> 0]
    /\ seen = [c \in Calls |-> {}]
    /\ result = [c \in Calls |-> NoResult]
    /\ reading = [c \in Calls |-> FALSE]
    /\ bodyLen \in [Calls -> 0..MaxBody]
    /\ \A c \in Calls : (conc \/ c \notin Running) => bodyLen[c] = 0
    /\ bodyLeft = bodyLen
    /\ payload = [c \in Calls |-> 0]
    /\ slept = [c \in Calls |-> 0]
    /\ pure = PureIdle
    /\ openBodies = [c \in Calls |-> 0]

Init == InitWith(FALSE)

InitConc == InitWith(TRUE)

\* http.NewRequest(verb, URL, body): the request carries what the reader
\* `body` still holds when the request is built (nothing for a nil body).
NewRequestBody(left) == left

Min(a, b) == IF a < b THEN a ELSE b

\* client.Do(req) returns a response: what the reader may hold at that
\* moment. The transport reads the request's body in a goroutine of its own,
\* and the server can answer before the body is written (in whole or at
\* all); left is what the reader held, sent what the request carries.
TransportRead(left, sent) == {left - n : n \in 0..Min(sent, left)}

\* The transport of an answered send has not read the request's body to its
\* end when client.Do returns: it may read on from the reader afterwards.
StillReading(left, sent, now) == left - now < sent /\ now > 0

\* client.Do(req) returns an error: what the reader may hold afterwards. The
\* send can fail before the request is written (nothing read), while it is
\* written, or after it (all read).
TransportReadFailed(left, sent) == {left - n : n \in 0..Min(sent, left)}

\* ------------------------------------------------------------- actions
Return(c, r) ==
    /\ pc' = [pc EXCEPT ![c] = "done"]
    /\ result' = [result EXCEPT ![c] = r]

\* The loop condition fails: the generic "Invalid Status Code" return.
LoopExit(c) ==
    /\ pc[c] = "loop"
    /\ ~LoopCond(attempts[c])
    /\ Return(c, ExhaustedResult(err[c]))
    /\ openBodies' = [openBodies EXCEPT ![c] = BodiesAtReturn(variant, @, 0)]
    /\ UNCHANGED <<variant, concurrent, version, constructOK, hdrVersion, attempts,
                   err, loopErr,
                   req, resp, sends, nsleeps, seen,
                   pure,
                   slept,
                   bodyLen,
                   bodyLeft,
                   payload,
                   reading>>

\* http.NewRequest fails: returned at once.
NewRequestFail(c) ==
    /\ pc[c] = "loop"
    /\ LoopCond(attempts[c])
    /\ ~constructOK[c]
    /\ Return(c, ErrorEnvelope("construct"))
    /\ loopErr' = [loopErr EXCEPT ![c] = "construct"]
    /\ openBodies' = [openBodies EXCEPT ![c] = BodiesAtReturn(variant, @, 0)]
    /\ UNCHANGED <<variant, concurrent, version, constructOK, hdrVersion, attempts,
                   err,
                   req, resp, sends, nsleeps, seen,
                   pure,
                   slept,
                   bodyLen,
                   bodyLeft,
                   payload,
                   reading>>

\* http.NewRequest succeeds and the caller's headers are added.
NewRequestOK(c) ==
    /\ pc[c] = "loop"
    /\ LoopCond(attempts[c])
    /\ constructOK[c]
    /\ req' = [req EXCEPT ![c] = NoUA]
    /\ pc' = [pc EXCEPT ![c] = IF variant = "legacy" THEN "setver" ELSE "send"]
    /\ payload' = [payload EXCEPT ![c] = NewRequestBody(bodyLeft[c])]
    /\ UNCHANGED <<variant, concurrent, version, constructOK, hdrVersion, attempts,
                   err, loopErr,
                   resp, sends, nsleeps, result, seen,
                   openBodies,
                   pure,
                   slept,
                   bodyLen,
                   bodyLeft,
                   reading>>

\* if headers["version"] != "": false.
SkipVersion(c) ==
    /\ pc[c] = "setver"
    /\ hdrVersion[c] = ""
    /\ pc' = [pc EXCEPT ![c] = "ua"]
    /\ UNCHANGED <<variant, concurrent, version, constructOK, hdrVersion, attempts,
                   err, loopErr,
                   req, resp, sends, nsleeps, result, seen,
                   openBodies,
                   pure,
                   slept,
                   bodyLen,
                   bodyLeft,
                   payload,
                   reading>>

\* version = headers["version"]: the unsynchronised write of the global
\* string begins ...
BeginSetVersion(c) ==
    /\ pc[c] = "setver"
    /\ hdrVersion[c] # ""
    /\ pc' = [pc EXCEPT ![c] = "writing"]
    /\ UNCHANGED <<variant, concurrent, version, constructOK, hdrVersion, attempts,
                   err, loopErr,
                   req, resp, sends, nsleeps, result, seen,
                   openBodies,
                   pure,
                   slept,
                   bodyLen,
                   bodyLeft,
                   payload,
                   reading>>

\* ... and ends; racing with another write the stored string may be torn.
EndSetVersion(c) ==
    /\ pc[c] = "writing"
    /\ version' \in
         IF \E d \in Calls \ {c} : pc[d] = "writing"
         THEN {hdrVersion[c], Torn}
         ELSE {hdrVersion[c]}
    /\ pc' = [pc EXCEPT ![c] = "ua"]
    /\ UNCHANGED <<variant, concurrent, constructOK, hdrVersion, attempts,
                   err, loopErr,
                   req, resp, sends, nsleeps, result, seen,
                   openBodies,
                   pure,
                   slept,
                   bodyLen,
                   bodyLeft,
                   payload,
                   reading>>

\* What a read of `version` by c can return: the stored string, or, racing
\* with a write in progress, the string being written or a torn one.
ReadVersion(c) ==
    {version} \cup
    UNION {{hdrVersion[d], Torn} : d \in {e \in Calls \ {c} : pc[e] = "writing"}}

\* req.Header.Add("User-Agent", userAgent+"/"+version)
AddUserAgent(c) ==
    /\ pc[c] = "ua"
    /\ \E v \in ReadVersion(c) : req' = [req EXCEPT ![c] = UA(v)]
    /\ pc' = [pc EXCEPT ![c] = "send"]
    /\ UNCHANGED <<variant, concurrent, version, constructOK, hdrVersion, attempts,
                   err, loopErr,
                   resp, sends, nsleeps, result, seen,
                   openBodies,
                   pure,
                   slept,
                   bodyLen,
                   bodyLeft,
                   payload,
                   reading>>

\* Mutation: a transport error sends the loop round instead of returning.
DoFailRetried(c) ==
    /\ pc[c] = "send"
    /\ sends[c] < SendBudget
    /\ sends' = [sends EXCEPT ![c] = @ + 1]
    /\ loopErr' = [loopErr EXCEPT ![c] = "transport"]
    /\ pc' = [pc EXCEPT ![c] = "loop"]
    /\ \E l \in TransportReadFailed(bodyLeft[c], payload[c]) :
         bodyLeft' = [bodyLeft EXCEPT ![c] = l]
    /\ UNCHANGED <<variant, concurrent, version, constructOK, hdrVersion, attempts,
                   err, req, resp, nsleeps, seen, result,
                   openBodies,
                   pure,
                   slept,
                   bodyLen,
                   payload,
                   reading>>

\* client.Do fails (network error, timeout): returned at once.
DoFail(c) ==
    /\ pc[c] = "send"
    /\ sends[c] < SendBudget
    /\ sends' = [sends EXCEPT ![c] = @ + 1]
    /\ Return(c, ErrorEnvelope("transport"))
    /\ loopErr' = [loopErr EXCEPT ![c] = "transport"]
    /\ openBodies' = [openBodies EXCEPT ![c] = BodiesAtReturn(variant, @, 0)]
    /\ \E l \in TransportReadFailed(bodyLeft[c], payload[c]) :
         bodyLeft' = [bodyLeft EXCEPT ![c] = l]
    /\ UNCHANGED <<variant, concurrent, version, constructOK, hdrVersion, attempts,
                   err,
                   req, resp, nsleeps, seen,
                   pure,
                   slept,
                   bodyLen,
                   payload,
                   reading>>

\* client.Do returns a response.
DoOK(c) ==
    /\ pc[c] = "send"
    /\ sends[c] < SendBudget
    /\ sends' = [sends EXCEPT ![c] = @ + 1]
    /\ \E code \in Answers :
         \E h \in (IF IsTooManyRequests(code) \/ IsForbidden(code)
                   THEN Hints ELSE {"none"}) :
            resp' = [resp EXCEPT ![c] = [code |-> code, hint |-> h]]
    /\ pc' = [pc EXCEPT ![c] = "classify"]
    /\ openBodies' = [openBodies EXCEPT ![c] = @ + 1]
    /\ \E l \in TransportRead(bodyLeft[c], payload[c]) :
         /\ bodyLeft' = [bodyLeft EXCEPT ![c] = l]
         /\ reading' = [reading EXCEPT ![c] = @ \/ StillReading(bodyLeft[c], payload[c], l)]
    /\ UNCHANGED <<variant, concurrent, version, constructOK, hdrVersion, attempts,
                   err, loopErr,
                   req, nsleeps, result, seen,
                   pure,
                   slept,
                   bodyLen,
                   payload>>

\* The transport of an earlier, answered send reads one more byte of the
\* request body it was given, from the reader the call goes on using.
TransportReadsOn(c) ==
    /\ reading[c]
    /\ bodyLeft[c] > 0
    /\ bodyLeft' = [bodyLeft EXCEPT ![c] = @ - 1]
    /\ UNCHANGED <<variant, concurrent, version, constructOK, hdrVersion, pc, attempts,
                   err, loopErr, req, resp, sends, nsleeps, seen, result,
                   openBodies, pure, slept, bodyLen, payload, reading>>

\* return statusOK(resp)
RespOK(c) ==
    /\ pc[c] = "classify"
    /\ IsOK(variant, resp[c].code)
    /\ Return(c, statusOK(resp[c]))
    /\ openBodies' = [openBodies EXCEPT ![c] = BodiesAtReturn(variant, @, 1)]
    /\ UNCHANGED <<variant, concurrent, version, constructOK, hdrVersion, attempts,
                   err, loopErr,
                   req, resp, sends, nsleeps, seen,
                   pure,
                   slept,
                   bodyLen,
                   bodyLeft,
                   payload,
                   reading>>

\* return statusNotFound(resp)
RespNotFound(c) ==
    /\ pc[c] = "classify"
    /\ ~IsOK(variant, resp[c].code)
    /\ IsNotFound(resp[c].code)
    /\ Return(c, statusNotFound(resp[c]))
    /\ openBodies' = [openBodies EXCEPT ![c] = BodiesAtReturn(variant, @, 1)]
    /\ UNCHANGED <<variant, concurrent, version, constructOK, hdrVersion, attempts,
                   err, loopErr,
                   req, resp, sends, nsleeps, seen,
                   pure,
                   slept,
                   bodyLen,
                   bodyLeft,
                   payload,
                   reading>>

\* A response that is neither 2xx nor 404 reaches the 429 and 403 tests.
Falls(c) ==
    /\ pc[c] = "classify"
    /\ ~IsOK(variant, resp[c].code)
    /\ ~IsNotFound(resp[c].code)

\* The kind of a response the loop goes round on.
Kind(code) ==
    IF IsTooManyRequests(code) THEN "429"
    ELSE IF IsForbidden(code) THEN "403" ELSE "other"

\* The loop goes round with the attempt count a the classifier gave; seen
\* records the kinds of the responses the call has been round on; req and
\* resp, variables of the loop body, go out of scope.
Continue(c, a) ==
    /\ attempts' = [attempts EXCEPT ![c] = LoopEndIncrement(variant, a)]
    /\ seen' = [seen EXCEPT ![c] = @ \cup {Kind(resp[c].code)}]
    /\ resp' = [resp EXCEPT ![c] = NoResp]
    /\ req' = [req EXCEPT ![c] = NoUA]
    /\ pc' = [pc EXCEPT ![c] = "loop"]

\* 429, the classifier sleeps and returns no error.
TooManyRequestsRetry(c) ==
    /\ Falls(c)
    /\ IsTooManyRequests(resp[c].code)
    /\ LET r == statusTooManyRequests(resp[c], attempts[c]) IN
         /\ r.err = Nil
         /\ Continue(c, r.attempts)
    /\ nsleeps' = [nsleeps EXCEPT ![c] = @ + 1]
    /\ slept' = [slept EXCEPT ![c] = @ + classifierSleep(resp[c], attempts[c])]
    /\ UNCHANGED <<variant, concurrent, version, constructOK, hdrVersion, err, loopErr,
                   sends, result,
                   openBodies,
                   pure,
                   bodyLen,
                   bodyLeft,
                   payload,
                   reading>>

\* 429, the classifier returns an error.
TooManyRequestsFail(c) ==
    /\ Falls(c)
    /\ IsTooManyRequests(resp[c].code)
    /\ LET r == statusTooManyRequests(resp[c], attempts[c]) IN
         /\ r.err # Nil
         /\ attempts' = [attempts EXCEPT ![c] = r.attempts]
         /\ loopErr' = [loopErr EXCEPT ![c] = r.err]
         /\ Return(c, ErrorEnvelope(r.err))
    /\ openBodies' = [openBodies EXCEPT ![c] = BodiesAtReturn(variant, @, 0)]
    /\ UNCHANGED <<variant, concurrent, version, constructOK, hdrVersion, err,
                   req, resp, sends, nsleeps, seen,
                   pure,
                   slept,
                   bodyLen,
                   bodyLeft,
                   payload,
                   reading>>

\* 403, the classifier sleeps and returns no error.
ForbiddenRetry(c) ==
    /\ Falls(c)
    /\ ~IsTooManyRequests(resp[c].code)
    /\ IsForbidden(resp[c].code)
    /\ LET r == statusForbidden(resp[c], attempts[c]) IN
         /\ r.err = Nil
         /\ Continue(c, r.attempts)
    /\ nsleeps' = [nsleeps EXCEPT ![c] = @ + 1]
    /\ slept' = [slept EXCEPT ![c] = @ + classifierSleep(resp[c], attempts[c])]
    /\ UNCHANGED <<variant, concurrent, version, constructOK, hdrVersion, err, loopErr,
                   sends, result,
                   openBodies,
                   pure,
                   bodyLen,
                   bodyLeft,
                   payload,
                   reading>>

\* 403, the classifier returns an error.
ForbiddenFail(c) ==
    /\ Falls(c)
    /\ ~IsTooManyRequests(resp[c].code)
    /\ IsForbidden(resp[c].code)
    /\ LET r == statusForbidden(resp[c], attempts[c]) IN
         /\ r.err # Nil
         /\ attempts' = [attempts EXCEPT ![c] = r.attempts]
         /\ loopErr' = [loopErr EXCEPT ![c] = r.err]
         /\ Return(c, ErrorEnvelope(r.err))
    /\ openBodies' = [openBodies EXCEPT ![c] = BodiesAtReturn(variant, @, 0)]
    /\ UNCHANGED <<variant, concurrent, version, constructOK, hdrVersion, err,
                   req, resp, sends, nsleeps, seen,
                   pure,
                   slept,
                   bodyLen,
                   bodyLeft,
                   payload,
                   reading>>

\* Any other status code: no branch is taken.
RespOther(c) ==
    /\ Falls(c)
    /\ ~IsTooManyRequests(resp[c].code)
    /\ ~IsForbidden(resp[c].code)
    /\ Continue(c, attempts[c])
    /\ UNCHANGED <<variant, concurrent, version, constructOK, hdrVersion, err, loopErr,
                   sends, nsleeps, result,
                   openBodies,
                   pure,
                   slept,
                   bodyLen,
                   bodyLeft,
                   payload,
                   reading>>

Next ==
    \/ \E c \in Running : LoopExit(c)
    \/ \E c \in Running : NewRequestFail(c)
    \/ \E c \in Running : NewRequestOK(c)
    \/ \E c \in Running : SkipVersion(c)
    \/ \E c \in Running : BeginSetVersion(c)
    \/ \E c \in Running : EndSetVersion(c)
    \/ \E c \in Running : AddUserAgent(c)
    \/ \E c \in Running : DoFail(c)
    \/ \E c \in Running : DoOK(c)
    \/ \E c \in Running : TransportReadsOn(c)
    \/ \E c \in Running : RespOK(c)
    \/ \E c \in Running : RespNotFound(c)
    \/ \E c \in Running : TooManyRequestsRetry(c)
    \/ \E c \in Running : TooManyRequestsFail(c)
    \/ \E c \in Running : ForbiddenRetry(c)
    \/ \E c \in Running : ForbiddenFail(c)
    \/ \E c \in Running : RespOther(c)

\* The steps of calls made with a nil body (GetURL): no transport has a
\* request body to read.
NextConc ==
    \/ \E c \in Running : LoopExit(c)
    \/ \E c \in Running : NewRequestFail(c)
    \/ \E c \in Running : NewRequestOK(c)
    \/ \E c \in Running : SkipVersion(c)
    \/ \E c \in Running : BeginSetVersion(c)
    \/ \E c \in Running : EndSetVersion(c)
    \/ \E c \in Running : AddUserAgent(c)
    \/ \E c \in Running : DoFail(c)
    \/ \E c \in Running : DoOK(c)
    \/ \E c \in Running : RespOK(c)
    \/ \E c \in Running : RespNotFound(c)
    \/ \E c \in Running : TooManyRequestsRetry(c)
    \/ \E c \in Running : TooManyRequestsFail(c)
    \/ \E c \in Running : ForbiddenRetry(c)
    \/ \E c \in Running : ForbiddenFail(c)
    \/ \E c \in Running : RespOther(c)

\* One call of Request running alone.
Spec == Init /\ [][Next]_vars

\* The calls of Calls running concurrently, each with a nil body.
SpecConc == InitConc /\ [][NextConc]_vars

\* No call of Request: one call of expBackoffCalc or of HeaderLink.
InitPure ==
    /\ variant = "current"
    /\ concurrent = FALSE
    /\ version = defaultVersion
    /\ constructOK = [c \in Calls |-> TRUE]
    /\ hdrVersion = [c \in Calls |-> ""]
    /\ pc = [c \in Calls |-> "idle"]
    /\ attempts = [c \in Calls |-> 0]
    /\ err = [c \in Calls |-> Nil]
    /\ loopErr = [c \in Calls |-> Nil]
    /\ req = [c \in Calls |-> NoUA]
    /\ resp = [c \in Calls |-> NoResp]
    /\ sends = [c \in Calls |-> 0]
    /\ nsleeps = [c \in Calls |-> 0]
    /\ seen = [c \in Calls |-> {}]
    /\ result = [c \in Calls |-> NoResult]
    /\ openBodies = [c \in Calls |-> 0]
    /\ slept = [c \in Calls |-> 0]
    /\ bodyLen = [c \in Calls |-> 0]
    /\ bodyLeft = [c \in Calls |-> 0]
    /\ payload = [c \in Calls |-> 0]
    /\ reading = [c \in Calls |-> FALSE]
    /\ \/ \E n \in 0..maxBackOffAttempts :
            pure = [PureIdle EXCEPT !.op = "backoff", !.n = n]
       \/ \E h \in LinkHeaders, r \in Commands :
            pure = [PureIdle EXCEPT !.op = "link", !.linkHeader = h, !.command = r]

CallVars ==
    <<variant, concurrent, version, constructOK, hdrVersion, pc, attempts,
      err, loopErr, req, resp, sends, nsleeps, seen, result, openBodies, slept,
      bodyLen, bodyLeft, payload, reading>>

CallExpBackoffCalc ==
    /\ pure.op = "backoff"
    /\ ~pure.ran
    /\ pure' = [pure EXCEPT !.ran = TRUE, !.backoff = expBackoffCalc(pure.n)]
    /\ UNCHANGED CallVars

CallHeaderLink ==
    /\ pure.op = "link"
    /\ ~pure.ran
    /\ pure' = [pure EXCEPT !.ran = TRUE,
                            !.url = HeaderLink(pure.linkHeader, pure.command)]
    /\ UNCHANGED CallVars

NextPure ==
    \/ CallExpBackoffCalc
    \/ CallHeaderLink

SpecPure == InitPure /\ [][NextPure]_vars

\* ------------------------------------------------------------- claims
Done(c) == pc[c] = "done"

\* The call returned from after the loop (attempts exhausted).
Exhausted(c) == Done(c) /\ result[c].text = "Invalid Status Code: URL"

\* Every response of the call so far was of a kind in K and sent the loop
\* round through a classifier.
AllRetried(c, K) ==
    /\ sends[c] > 0
    /\ nsleeps[c] = sends[c]
    /\ seen[c] \subseteq K

\* C1: a call whose every response was 429 or 403 has given up only after
\* exactly 8 such responses, with status.code = -1 and a non-nil error.
C1_GivesUpAfterEight ==
    \A c \in Calls :
        (Done(c) /\ AllRetried(c, {"429", "403"})) =>
            /\ sends[c] = maxBackOffAttempts
            /\ result[c].code = -1
            /\ result[c].err # Nil

\* C2: on every return of Request, status.code = -1 if and only if the
\* returned error is non-nil.
C2_CodeIffError ==
    \A c \in Calls :
        Done(c) => ((result[c].code = -1) <=> (result[c].err # Nil))

\* C3: whatever the server answers, a call performs at most 8 sends.
C3_AtMostEightSends ==
    \A c \in Calls : sends[c] <= maxBackOffAttempts

\* C4: after k consecutive 429 responses, k < 8, the call sends again (so
\* that a 200 coming next is seen); it gives up on 429 responses only when 8
\* sends have been used, and a 200 after the 429s is returned with nil error.
C4_RetriesUntil200 ==
    \A c \in Calls :
        /\ (Exhausted(c) /\ AllRetried(c, {"429"})) =>
               sends[c] = maxBackOffAttempts
        /\ (Done(c) /\ seen[c] \subseteq {"429"} /\ resp[c].code = StatusOK) =>
               (result[c].code = StatusOK /\ result[c].err = Nil)

\* C5: a response with a status code in 200..299 is returned at once: the
\* step that classifies it ends the call with nil error and the real code,
\* without a sleep or a further send.
C5_SuccessReturnsAtOnce ==
    [][\A c \in Calls :
          (pc[c] = "classify" /\ resp[c].code \in 200..299 /\ pc'[c] # "classify") =>
              /\ pc'[c] = "done"
              /\ result'[c].code = resp[c].code
              /\ result'[c].err = Nil
              /\ sends'[c] = sends[c]
              /\ nsleeps'[c] = nsleeps[c]]_vars

FatalErrors == {"construct", "transport"}

\* C6: the step in which a request-construction or transport error occurs
\* ends the call with status.code = -1 and that error, without a sleep; a
\* construction error means no send at all, and a returned call neither
\* sends nor sleeps again.
C6_FatalErrorsNotRetried ==
    [][\A c \in Calls :
          /\ (loopErr[c] = Nil /\ loopErr'[c] \in FatalErrors) =>
                 /\ pc'[c] = "done"
                 /\ result'[c].code = -1
                 /\ result'[c].err = loopErr'[c]
                 /\ nsleeps'[c] = nsleeps[c]
                 /\ (loopErr'[c] = "construct" => sends'[c] = 0)
          /\ loopErr[c] \in FatalErrors =>
                 /\ pc'[c] = "done"
                 /\ sends'[c] = sends[c]
                 /\ nsleeps'[c] = nsleeps[c]]_vars

\* A transport error at a retry, after a backoff sleep, has been returned.
C6_Witness ==
    \E c \in Calls :
        /\ Done(c) /\ result[c].err = "transport" /\ result[c].code = -1
        /\ sends[c] >= 2 /\ nsleeps[c] >= 1

\* C7: a 404 response is returned at once: the step that classifies it ends
\* the call with nil error and status.code = 404, without a sleep or a
\* further send, whatever the attempt counter.
C7_NotFoundReturnsAtOnce ==
    [][\A c \in Calls :
          (pc[c] = "classify" /\ resp[c].code = 404 /\ pc'[c] # "classify") =>
              /\ pc'[c] = "done"
              /\ result'[c].code = 404
              /\ result'[c].err = Nil
              /\ sends'[c] = sends[c]
              /\ nsleeps'[c] = nsleeps[c]]_vars

\* A 404 has been returned by a call whose attempt counter is not 0.
C7_Witness ==
    \E c \in Calls :
        Done(c) /\ result[c].code = 404 /\ result[c].err = Nil /\ attempts[c] > 0

\* req[c] is the request the call sent last: a response to it is being
\* classified, or the call returned from inside the loop body after a send.
Sent(c) ==
    \/ pc[c] = "classify"
    \/ Done(c) /\ ~Exhausted(c) /\ sends[c] > 0

\* The User-Agent header a call builds when no other call runs.
SoloUA(c) ==
    IF variant = "legacy"
    THEN UA(IF hdrVersion[c] # "" THEN hdrVersion[c] ELSE defaultVersion)
    ELSE NoUA

\* C8: under every interleaving each call's attempt counter is the one its
\* own responses give, and what it sends is what it would send running
\* alone: no state of another call reaches it.
C8_CallsIsolated ==
    \A c \in Calls :
        /\ pc[c] = "loop" =>
               attempts[c] = nsleeps[c] + (IF variant = "current" THEN sends[c] ELSE 0)
        /\ Sent(c) => req[c] = SoloUA(c)

\* C9: the attempt counter never exceeds 8.
C9_AttemptsAtMostEight ==
    \A c \in Calls : attempts[c] >= 0 /\ attempts[c] <= maxBackOffAttempts

\* C10: every request sent carries the product identifier as User-Agent.
C10_UserAgentSent ==
    \A c \in Calls : Sent(c) => req[c].product = userAgent
\* C11: at the moment of a send no response body of an earlier attempt of
\* the call is open, and none is open after Request returns.
C11_BodiesReleased ==
    \A c \in Calls :
        (pc[c] = "send" \/ Done(c)) => openBodies[c] = 0
\* A status code that is not 2xx, 404, 429 or 403.
Unclassified(code) ==
    /\ code \notin 200..299
    /\ code \notin {404, 429, 403}

\* C12: the step that classifies an unclassified status consumes exactly one
\* attempt and goes back to the loop without a sleep; after 8 consecutive
\* such responses the next step ends the call as attempts exhausted
\* (status.code = -1, text "Invalid Status Code: " + URL).
C12_UnclassifiedConsumesOne ==
    [][\A c \in Calls :
          /\ (pc[c] = "classify" /\ Unclassified(resp[c].code) /\ pc'[c] # "classify") =>
                 /\ pc'[c] = "loop"
                 /\ attempts'[c] = attempts[c] + 1
                 /\ nsleeps'[c] = nsleeps[c]
                 /\ sends'[c] = sends[c]
          /\ (pc[c] = "loop" /\ seen[c] = {"other"} /\ sends[c] = maxBackOffAttempts
                /\ pc'[c] # "loop") =>
                 /\ pc'[c] = "done"
                 /\ result'[c].code = -1
                 /\ result'[c].text = "Invalid Status Code: URL"]_vars
\* C13: expBackoffCalc(n) = (2^n - 1) / 2 for n in 0..8: 0 at n = 0,
\* non-negative, strictly increasing in n, and 127.5 (= 255 / 2) at n = 8.
C13_BackoffFormula ==
    (pure.op = "backoff" /\ pure.ran) =>
        /\ pure.backoff.den = 2
        /\ pure.backoff.num = 2 ^ pure.n - 1
        /\ pure.backoff.num >= 0
        /\ (pure.n = 0 => pure.backoff.num = 0)
        /\ (pure.n = 8 => pure.backoff.num = 255)
        /\ \A m \in 0..(pure.n - 1) :
              /\ expBackoffCalc(m).den = 2
              /\ expBackoffCalc(m).num < pure.backoff.num

\* expBackoffCalc(8) has been computed and is 127.5.
C13_Witness ==
    pure.op = "backoff" /\ pure.ran /\ pure.n = 8 /\ pure.backoff = [num |-> 255, den |-> 2]

\* The indices of the parsed links of h whose rel is r.
Matches(h, r) == {i \in 1..Len(Parse(h)) : Parse(h)[i].Rel = r}

\* C14: HeaderLink returns the URL of the first parsed link whose rel is the
\* requested relation, and "" when no parsed link has it.
C14_HeaderLinkFirstMatch ==
    (pure.op = "link" /\ pure.ran) =>
        LET M == Matches(pure.linkHeader, pure.command) IN
            IF M = {} THEN pure.url = ""
            ELSE \E i \in M :
                    /\ \A j \in M : i <= j
                    /\ pure.url = Parse(pure.linkHeader)[i].URL

\* HeaderLink ran on a header with two links of the requested relation and
\* different URLs, after a malformed chunk, and returned the first one's URL.
C14_Witness ==
    /\ pure.op = "link" /\ pure.ran
    /\ Len(pure.linkHeader) = 3
    /\ pure.linkHeader[1] = Malformed
    /\ pure.linkHeader[2].Rel = pure.command
    /\ pure.linkHeader[3].Rel = pure.command
    /\ pure.linkHeader[2].URL # pure.linkHeader[3].URL
    /\ pure.url = pure.linkHeader[2].URL
\* The sum of the backoff durations for attempts 0..k-1, in half seconds.
RECURSIVE SumBackoff(_)
SumBackoff(k) == IF k = 0 THEN 0 ELSE SumBackoff(k - 1) + (2 ^ (k - 1) - 1)

\* C15: a call that got k 429 responses and then a 200 has slept the sum of
\* the backoff durations for attempts 0..k-1 (the durations grow strictly, so
\* this is the classifier having been given 0, 1, ..., k-1 in that order).
C15_SleepIsSumOfBackoffs ==
    \A c \in Calls :
        (Done(c) /\ resp[c].code = StatusOK /\ result[c].code = StatusOK
           /\ seen[c] \subseteq {"429"}) =>
            /\ nsleeps[c] = sends[c] - 1
            /\ slept[c] = SumBackoff(nsleeps[c])

\* What the classifier of a 429 or 403 response returns for attempt count a.
Classified(r, a) ==
    IF IsTooManyRequests(r.code) THEN statusTooManyRequests(r, a)
    ELSE statusForbidden(r, a)

\* C16: the step that classifies a 429 or 403 response ends the call with
\* status.code = -1 and the classifier's error when the classifier reports
\* one, without a send, and otherwise goes back to the loop with the attempt
\* count the classifier returned; a call ended by a classifier error does
\* not send again.
C16_ClassifierOutcome ==
    [][\A c \in Calls :
          /\ (pc[c] = "classify" /\ resp[c].code \in {StatusTooManyRequests, StatusForbidden}
                /\ pc'[c] # "classify") =>
                 LET r == Classified(resp[c], attempts[c]) IN
                   IF r.err # Nil
                   THEN /\ pc'[c] = "done"
                        /\ result'[c].code = -1
                        /\ result'[c].err = r.err
                        /\ sends'[c] = sends[c]
                   ELSE /\ pc'[c] = "loop"
                        /\ attempts'[c] = r.attempts
          /\ (Done(c) /\ result[c].err = "classifier") => sends'[c] = sends[c]]_vars

\* C17: a returned result with status.code = -1 has a nil body and nil
\* headers; a returned result that has a body or headers has a status code
\* in 200..299 or 404.
C17_ErrorResultsCarryNothing ==
    \A c \in Calls :
        Done(c) =>
            /\ (result[c].code = -1) =>
                   (result[c].body = "nil" /\ result[c].headers = "nil")
            /\ (result[c].body # "nil" \/ result[c].headers # "nil") =>
                   (result[c].code \in 200..299 \/ result[c].code = 404)

\* A call has returned a classifier error after a retry, with nothing in it.
C17_Witness ==
    \E c \in Calls :
        /\ Done(c) /\ result[c].code = -1 /\ result[c].err = "classifier"
        /\ nsleeps[c] >= 1
        /\ result[c].body = "nil" /\ result[c].headers = "nil"

\* C18: the status code of a returned result is -1, 404 or in 200..299,
\* whatever responses the call received.
C18_ResultCodes ==
    \A c \in Calls :
        Done(c) => result[c].code \in ({-1, 404} \cup (200..299))

\* After a 429, a 403 and an unclassified status the call has returned a
\* result whose code is none of them.
C18_Witness ==
    \E c \in Calls :
        /\ Done(c) /\ seen[c] = {"429", "403", "other"}
        /\ result[c].code \in ({-1, 404} \cup (200..299))

\* C19: the request a call sent last carries the whole body the caller
\* passed, at the first attempt and at every retry.
C19_SamePayload ==
    \A c \in Calls : Sent(c) => payload[c] = bodyLen[c]

\* C20: a call whose headers have no (or an empty) `version` entry sends, in
\* every User-Agent it sends, the default version, whatever the other calls
\* passed.
C20_DefaultVersionWhenUnset ==
    \A c \in Calls :
        (Sent(c) /\ hdrVersion[c] = "" /\ req[c].product = userAgent) =>
            req[c].version = defaultVersion
====
